---- MODULE Spec2Model ----
(***************************************************************************)
(* Model of s2voronoi: spherical Delaunay triangulation (s2delaunay) and   *)
(* its dual Voronoi diagram with Lloyd relaxation.                         *)
(*                                                                         *)
(* Go slices are modelled as functions with domain 0..n-1 ("arrays").      *)
(* A slice handed over by the caller lives in `heap` and is referred to by *)
(* its address, so that two slice headers over one backing array alias.    *)
(* Points are integer 3-vectors of one common squared norm (a coarse grid  *)
(* of representable unit vectors); r3.Vector.Normalize rounds a direction  *)
(* to the nearest grid point and maps the zero vector to the zero vector.  *)
(***************************************************************************)
EXTENDS Integers, Sequences, FiniteSets, TLC

\* ------------------------------------------------------------------ bounds
\* largest number of sites in the caller's slice
MaxSites == 5
\* largest step count handed to Relax
MaxSteps == 2
\* number of API calls made in one behaviour
MaxCalls == 2
\* largest number of Voronoi vertices of a Diagram put together by hand
MaxVerts == 3
\* largest site index in a triangle handed to PrevVertex and NextVertex
MaxIndex == 3

\* ------------------------------------------------------- program constants
\* defaultEps = 1e-12, in units of 1e-12
defaultEps == 1

\* ------------------------------------------------------------------ arrays
ALen(a) == Cardinality(DOMAIN a)
EmptyArr == [i \in {} |-> 0]
\* the Go sub-slice a[start:end]
Slice(a, start, end) == [i \in 0..(end - start - 1) |-> a[start + i]]
\* writes the sub-slice s back over a[start:start+len(s)] (shared backing array)
WriteSlice(a, start, s) ==
    [i \in DOMAIN a |-> IF i >= start /\ i < start + ALen(s) THEN s[i - start] ELSE a[i]]

\* ------------------------------------------------------------- r3 vectors
Zero == <<0, 0, 0>>
Add(a, b) == <<a[1] + b[1], a[2] + b[2], a[3] + b[3]>>
Sub(a, b) == <<a[1] - b[1], a[2] - b[2], a[3] - b[3]>>
Mul(a, m) == <<a[1] * m, a[2] * m, a[3] * m>>
Dot(a, b) == a[1] * b[1] + a[2] * b[2] + a[3] * b[3]
Cross(a, b) == <<a[2] * b[3] - a[3] * b[2],
                 a[3] * b[1] - a[1] * b[3],
                 a[1] * b[2] - a[2] * b[1]>>

\* Sites the caller may pass: integer points of squared norm 9
SitePool == << <<0, 3, 0>>, <<-2, -2, -1>>, <<1, 2, 2>>, <<2, 1, -2>>,
               <<2, -2, -1>>, <<-2, 1, 2>>, <<1, -2, -2>> >>
Norm2 == Dot(SitePool[1], SitePool[1])
Coord == {c \in -Norm2..Norm2 : c * c <= Norm2}
\* the representable unit vectors
Grid == {v \in Coord \X Coord \X Coord : Dot(v, v) = Norm2}

LexLeq(a, b) ==
    \/ a[1] < b[1]
    \/ a[1] = b[1] /\ a[2] < b[2]
    \/ a[1] = b[1] /\ a[2] = b[2] /\ a[3] <= b[3]

\* the grid in lexicographic order
GridSeq ==
    [r \in 1..Cardinality(Grid) |->
        CHOOSE g \in Grid : Cardinality({h \in Grid : LexLeq(h, g)}) = r]

\* the representable unit vector nearest to the direction of w (the first of
\* them in grid order when several are equally near)
NearestGrid(w) ==
    LET dots == [k \in DOMAIN GridSeq |-> Dot(w, GridSeq[k])]
        best == CHOOSE x \in {dots[k] : k \in DOMAIN GridSeq} :
                    \A k \in DOMAIN GridSeq : dots[k] <= x
    IN  GridSeq[CHOOSE k \in DOMAIN GridSeq :
                    dots[k] = best /\ \A j \in 1..(k - 1) : dots[j] # best]

\* r3.Vector.Normalize: the zero vector stays zero, any other vector becomes
\* the unit vector of its direction, rounded to the nearest representable one
Normalize(v) ==
    CHOOSE g \in {IF Dot(w, w) = 0 THEN Zero ELSE NearestGrid(w) : w \in {v}} : TRUE

\* ------------------------------------------------------ triangle neighbours
\* PrevVertex / NextVertex panic when vIdx is not a vertex of t
VertexPanics(t, vIdx) == vIdx \notin {t[0], t[1], t[2]}

\* PrevVertex answering with the vertex after vIdx
PrevVertexAsNext(t, vIdx) ==
    CASE vIdx = t[0] -> t[1]
      [] vIdx = t[1] -> t[2]
      [] vIdx = t[2] -> t[0]

PrevVertex(t, vIdx) ==
    CASE vIdx = t[0] -> t[2]
      [] vIdx = t[1] -> t[0]
      [] vIdx = t[2] -> t[1]

NextVertex(t, vIdx) ==
    CASE vIdx = t[0] -> t[1]
      [] vIdx = t[1] -> t[2]
      [] vIdx = t[2] -> t[0]

\* PrevVertex(t, vIdx) and NextVertex(t, vIdx) as their caller sees them: the
\* index, or the panic after the switch
PrevVertexCall(t, vIdx) ==
    IF VertexPanics(t, vIdx)
    THEN [panic |-> "PrevVertex: vIdx not in triangle"]
    ELSE [panic |-> "", value |-> PrevVertex(t, vIdx)]

NextVertexCall(t, vIdx) ==
    IF VertexPanics(t, vIdx)
    THEN [panic |-> "NextVertex: vIdx not in triangle"]
    ELSE [panic |-> "", value |-> NextVertex(t, vIdx)]

\* ------------------------------------------------------------ hull provider
\* quickhull.ConvexHull(points, ccw = true, useOriginalIndices = true, eps):
\* the faces of the convex hull as index triples, counter-clockwise seen from
\* outside the hull.  A triple is a face when every other point lies strictly
\* behind its plane; for input that is not in general position (duplicates,
\* four coplanar points on one facet, a point inside the hull) only those
\* strict faces are returned, which are then fewer than 2N-4.
\* rot is the provider's choice of the vertex each face starts with.
Tri(a, b, c) == [x \in 0..2 |-> IF x = 0 THEN a ELSE IF x = 1 THEN b ELSE c]
Rotate(f, r) == [x \in 0..2 |-> f[(x + r) % 3]]

\* the triple i, j, k oriented counter-clockwise seen from outside when its
\* plane supports the hull strictly, <<>> when it is no face
FaceOf(P, i, j, k) ==
    LET n == Cross(Sub(P[j], P[i]), Sub(P[k], P[i]))
        side == {Dot(n, Sub(P[m], P[i])) : m \in DOMAIN P \ {i, j, k}}
    IN  IF n = Zero THEN <<>>
        ELSE IF \A x \in side : x < 0 THEN <<Tri(i, j, k)>>
        ELSE IF \A x \in side : x > 0 THEN <<Tri(i, k, j)>>
        ELSE <<>>

\* the index triples i < j < k over N points, in increasing order
Triples(N) ==
    LET all == [x \in 1..(N * N * N) |->
                   <<(x - 1) \div (N * N), ((x - 1) \div N) % N, (x - 1) % N>>]
        Increasing(t) == t[1] < t[2] /\ t[2] < t[3]
    IN  SelectSeq(all, Increasing)

\* the faces among the triples, in the order of their index triples
HullFaces(P) ==
    LET tr == Triples(ALen(P))
        faces == [x \in DOMAIN tr |-> FaceOf(P, tr[x][1], tr[x][2], tr[x][3])]
        IsFace(f) == f # <<>>
    IN  SelectSeq(faces, IsFace)

\* ch.Indices: three indices per face
ConvexHull(P, rot) ==
    LET hf == HullFaces(P)
        faces == [x \in DOMAIN hf |-> Rotate(hf[x][1], (x - 1 + rot) % 3)]
    IN  [p \in 0..(3 * Len(faces) - 1) |-> faces[(p \div 3) + 1][p % 3]]

\* ---------------------------------------------------------- s2delaunay
\* sortTriangleVerticesCCW swapping when the signed volume is positive
sortTriangleVerticesCW(t, v) ==
    LET a == v[t[0]]
        b == v[t[1]]
        c == v[t[2]]
        norm == Cross(Sub(b, a), Sub(c, a))
    IN  IF Dot(norm, a) > 0 THEN Tri(t[0], t[2], t[1]) ELSE t

\* sortTriangleVerticesCCW: swaps the second and third index when the signed
\* volume is negative
sortTriangleVerticesCCW(t, v) ==
    LET a == v[t[0]]
        b == v[t[1]]
        c == v[t[2]]
        norm == Cross(Sub(b, a), Sub(c, a))
    IN  IF Dot(norm, a) < 0 THEN Tri(t[0], t[2], t[1]) ELSE t

\* inner loop of sortIncidentTriangleIndicesCCW: the first j in [j, n) whose
\* triangle has PrevVertex equal to nxt, or n when there is none
RECURSIVE FindMatch(_, _, _, _, _)
FindMatch(vIdx, incidentTris, tris, nxt, j) ==
    IF j >= ALen(incidentTris) THEN ALen(incidentTris)
    ELSE IF PrevVertex(tris[incidentTris[j]], vIdx) = nxt THEN j
    ELSE FindMatch(vIdx, incidentTris, tris, nxt, j + 1)

\* Swap that loses the entry at position i
SwapOverwrite(a, i, j) == [a EXCEPT ![i] = a[j]]

\* incidentTris[i], incidentTris[j] = incidentTris[j], incidentTris[i]
Swap(a, i, j) == [a EXCEPT ![i] = a[j], ![j] = a[i]]

\* outer loop of sortIncidentTriangleIndicesCCW, from position i on
RECURSIVE SortFrom(_, _, _, _)
SortFrom(vIdx, incidentTris, tris, i) ==
    IF i >= ALen(incidentTris) THEN incidentTris
    ELSE LET nxt == NextVertex(tris[incidentTris[i - 1]], vIdx)
             j == FindMatch(vIdx, incidentTris, tris, nxt, i + 1)
         IN  IF j < ALen(incidentTris)
             THEN SortFrom(vIdx, Swap(incidentTris, i, j), tris, i + 1)
             ELSE SortFrom(vIdx, incidentTris, tris, i + 1)

sortIncidentTriangleIndicesCCW(vIdx, incidentTris, tris) ==
    SortFrom(vIdx, incidentTris, tris, 1)

\* CountPass tallying into offsets[idx] instead of offsets[idx+1]
CountPassUnshifted(indices, p, offsets) ==
    [x \in DOMAIN offsets |->
        offsets[x] + Cardinality({q \in DOMAIN indices : q >= p /\ indices[q] = x})]

\* first counting pass, from position p on: t.IncidentTriangleOffsets[idx+1]++
\* for every index, i.e. each entry grows by the number of indices that hit it
CountPass(indices, p, offsets) ==
    [x \in DOMAIN offsets |->
        offsets[x] + Cardinality({q \in DOMAIN indices : q >= p /\ indices[q] + 1 = x})]

\* PrefixPass stopping one site early
RECURSIVE PrefixPassShort(_, _, _)
PrefixPassShort(offsets, i, numVertices) ==
    IF i >= numVertices - 1 THEN offsets
    ELSE PrefixPassShort([offsets EXCEPT ![i + 1] = offsets[i + 1] + offsets[i]],
                         i + 1, numVertices)

\* prefix sum: offsets[i+1] += offsets[i] for i in 0..numVertices-1
RECURSIVE PrefixPass(_, _, _)
PrefixPass(offsets, i, numVertices) ==
    IF i >= numVertices THEN offsets
    ELSE PrefixPass([offsets EXCEPT ![i + 1] = offsets[i + 1] + offsets[i]],
                    i + 1, numVertices)

\* body of the corner loop for triangle i, corner j: store the index, write i
\* at the site's cursor and advance the cursor.
\* st = [Triangles, IncidentTriangleIndices, nxt, writes]; writes counts the
\* assignments made to each slot of IncidentTriangleIndices
ScatterCorner(indices, i, j, st) ==
    LET v == indices[i * 3 + j]
    IN  [Triangles |-> [st.Triangles EXCEPT ![i][j] = v],
         IncidentTriangleIndices |-> [st.IncidentTriangleIndices EXCEPT ![st.nxt[v]] = i],
         nxt |-> [st.nxt EXCEPT ![v] = st.nxt[v] + 1],
         writes |-> [st.writes EXCEPT ![st.nxt[v]] = st.writes[st.nxt[v]] + 1]]

\* scatter pass, from triangle i on: the three corners of triangle i, then
\* sortTriangleVerticesCCW(&t.Triangles[i], t.Vertices)
RECURSIVE ScatterPass(_, _, _, _)
ScatterPass(indices, verts, i, st) ==
    IF i >= ALen(st.Triangles) THEN st
    ELSE LET s3 == ScatterCorner(indices, i, 2,
                       ScatterCorner(indices, i, 1, ScatterCorner(indices, i, 0, st)))
         IN  ScatterPass(indices, verts, i + 1,
                 [s3 EXCEPT !.Triangles[i] = sortTriangleVerticesCCW(s3.Triangles[i], verts)])

\* Triangulation.IncidentTriangles
IncidentTriangles(t, vIdx) ==
    Slice(t.IncidentTriangleIndices, t.IncidentTriangleOffsets[vIdx],
          t.IncidentTriangleOffsets[vIdx + 1])

\* last loop of NewTriangulation: order every site's incident list in place
RECURSIVE SortAll(_, _, _)
SortAll(t, i, numVertices) ==
    IF i >= numVertices THEN t
    ELSE SortAll([t EXCEPT !.IncidentTriangleIndices =
                     WriteSlice(t.IncidentTriangleIndices, t.IncidentTriangleOffsets[i],
                         sortIncidentTriangleIndicesCCW(i, IncidentTriangles(t, i),
                                                        t.Triangles))],
                 i + 1, numVertices)

\* the errors the constructors return ("" is the nil error)
ErrEps == "WithEps: eps must be positive"
ErrVertices == "NewTriangulation: insufficient vertices for triangulation minimum 4 required"
ErrIndices == "NewTriangulation: inconsistent number of indices returned from QuickHull"
ErrSteps == "Relax: steps must be non-negative"
ErrSites == "NewDiagram: insufficient sites for diagram, minimum 4 required"

\* ApplySetters with WithEps rejecting negative values only
RECURSIVE ApplySettersNonNegative(_, _, _)
ApplySettersNonNegative(setters, k, opts) ==
    IF k > Len(setters) THEN [err |-> FALSE, Eps |-> opts]
    ELSE IF setters[k] < 0 THEN [err |-> TRUE, Eps |-> opts]
    ELSE ApplySettersNonNegative(setters, k + 1, setters[k])

\* options: a setter WithEps(eps) is modelled by its argument
RECURSIVE ApplySetters(_, _, _)
ApplySetters(setters, k, opts) ==
    IF k > Len(setters) THEN [err |-> FALSE, Eps |-> opts]
    ELSE IF setters[k] <= 0 THEN [err |-> TRUE, Eps |-> opts]
    ELSE ApplySetters(setters, k + 1, setters[k])

NilTriangulation == [nil |-> TRUE]

\* a triangle count that is off by two
NumTrianglesPlus2(numVertices) == 2 * (numVertices - 1)

\* numTriangles := 2 * (numVertices - 2)
NumTriangles(numVertices) == 2 * (numVertices - 2)

\* Offsets with the prefix sum leaving out the last site
OffsetsShort(ch, numVertices) ==
    PrefixPass(CountPass(ch, 0, [i \in 0..numVertices |-> 0]), 0, numVertices - 1)

\* the two loops that fill IncidentTriangleOffsets: the tally of the hull
\* indices and the prefix sum
Offsets(ch, numVertices) ==
    PrefixPass(CountPass(ch, 0, [i \in 0..numVertices |-> 0]), 0, numVertices)

\* nxt := copy of offsets[:numVertices], then the scatter loop over the
\* freshly made Triangles and IncidentTriangleIndices
Scatter(ch, verts, numVertices, offsets) ==
    ScatterPass(ch, verts, 0,
        [Triangles |-> [i \in 0..(NumTriangles(numVertices) - 1) |-> Tri(0, 0, 0)],
         IncidentTriangleIndices |->
             [i \in 0..(NumTriangles(numVertices) * 3 - 1) |-> 0],
         nxt |-> [i \in 0..(numVertices - 1) |-> offsets[i]],
         writes |-> [i \in 0..(NumTriangles(numVertices) * 3 - 1) |-> 0]])

\* NewTriangulation once the hull provider has returned ch: the count check,
\* the counting sort of the triangle indices by vertex and the ordering of
\* every site's incident list.  verts are the points, vertices their address.
\* eps is the tolerance the hull provider was called with.
TriangulateHull(vertices, verts, numVertices, ch, eps) ==
    LET numTriangles == NumTriangles(numVertices)
        offsets == Offsets(ch, numVertices)
        st == Scatter(ch, verts, numVertices, offsets)
        t == [nil |-> FALSE,
              Vertices |-> vertices,
              Triangles |-> st.Triangles,
              IncidentTriangleIndices |-> st.IncidentTriangleIndices,
              IncidentTriangleOffsets |-> offsets]
    IN  IF ALen(ch) # numTriangles * 3
        THEN [err |-> TRUE, msg |-> ErrIndices, t |-> NilTriangulation,
              hull |-> 1, hullEps |-> eps]
        ELSE [err |-> FALSE, msg |-> "", t |-> SortAll(t, 0, numVertices),
              hull |-> 1, hullEps |-> eps]

\* NewTriangulation accepting three vertices
NewTriangulationMin3(h, vertices, setters, rot) ==
    LET opts == ApplySetters(setters, 1, defaultEps)
        numVertices == ALen(h[vertices])
    IN  IF opts.err
        THEN [err |-> TRUE, msg |-> ErrEps, t |-> NilTriangulation,
              hull |-> 0, hullEps |-> 0]
        ELSE IF numVertices < 3
        THEN [err |-> TRUE, msg |-> ErrVertices, t |-> NilTriangulation,
              hull |-> 0, hullEps |-> 0]
        ELSE TriangulateHull(vertices, h[vertices], numVertices,
                             ConvexHull(h[vertices], rot), opts.Eps)

\* NewTriangulation(vertices, setters...): vertices is the address of the
\* caller's slice; hull counts the calls of the hull provider
NewTriangulation(h, vertices, setters, rot) ==
    LET opts == ApplySetters(setters, 1, defaultEps)
        numVertices == ALen(h[vertices])
    IN  IF opts.err
        THEN [err |-> TRUE, msg |-> ErrEps, t |-> NilTriangulation,
              hull |-> 0, hullEps |-> 0]
        ELSE IF numVertices < 4
        THEN [err |-> TRUE, msg |-> ErrVertices, t |-> NilTriangulation,
              hull |-> 0, hullEps |-> 0]
        ELSE TriangulateHull(vertices, h[vertices], numVertices,
                             ConvexHull(h[vertices], rot), opts.Eps)

\* Triangulation.TriangleVertices
TriangleVertices(h, t, tIdx) ==
    LET tri == t.Triangles[tIdx]
    IN  <<h[t.Vertices][tri[0]], h[t.Vertices][tri[1]], h[t.Vertices][tri[2]]>>

\* ------------------------------------------------------------ s2voronoi
\* triangleCircumcenter
triangleCircumcenter(a, b, c) ==
    LET v1 == Sub(a, b)
        v2 == Sub(b, c)
        circumcenter == Cross(v1, v2)
    IN  IF Dot(circumcenter, Add(Add(a, b), c)) < 0
        THEN Mul(circumcenter, -1)
        ELSE circumcenter

\* NeighborPass taking the vertex before the site instead of the one after
RECURSIVE NeighborPassPrev(_, _, _)
NeighborPassPrev(dt, vIdx, cellNeighbors) ==
    IF vIdx >= ALen(dt.IncidentTriangleOffsets) - 1 THEN cellNeighbors
    ELSE LET offset == dt.IncidentTriangleOffsets[vIdx]
             it == IncidentTriangles(dt, vIdx)
         IN  NeighborPassPrev(dt, vIdx + 1,
                 WriteSlice(cellNeighbors, offset,
                     [i \in DOMAIN it |-> PrevVertex(dt.Triangles[it[i]], vIdx)]))

\* neighbour loop of NewDiagram, from site vIdx on:
\* d.CellNeighbors[offset+i] = NextVertex(dt.Triangles[it[i]], vIdx)
RECURSIVE NeighborPass(_, _, _)
NeighborPass(dt, vIdx, cellNeighbors) ==
    IF vIdx >= ALen(dt.IncidentTriangleOffsets) - 1 THEN cellNeighbors
    ELSE LET offset == dt.IncidentTriangleOffsets[vIdx]
             it == IncidentTriangles(dt, vIdx)
         IN  NeighborPass(dt, vIdx + 1,
                 WriteSlice(cellNeighbors, offset,
                     [i \in DOMAIN it |-> NextVertex(dt.Triangles[it[i]], vIdx)]))

NilDiagram == [nil |-> TRUE]

\* the Diagram NewDiagram fills in from the triangulation dt: one Voronoi
\* vertex per triangle, the CSR arrays taken over from dt, the neighbours
DualDiagram(h, dt, eps) ==
    [nil |-> FALSE,
     Sites |-> dt.Vertices,
     Vertices |-> [i \in 0..(ALen(dt.Triangles) - 1) |->
                      LET p == TriangleVertices(h, dt, i)
                      IN  Normalize(triangleCircumcenter(p[1], p[2], p[3]))],
     CellVertices |-> dt.IncidentTriangleIndices,
     CellNeighbors |-> NeighborPass(dt, 0,
                           [i \in 0..(ALen(dt.IncidentTriangleIndices) - 1) |-> 0]),
     CellOffsets |-> dt.IncidentTriangleOffsets,
     eps |-> eps]

\* DiagramOf returning an error of its own instead of the triangulation's
DiagramOfWrapped(h, r, eps) ==
    IF r.err
    THEN [err |-> TRUE, msg |-> "NewDiagram: triangulation failed", d |-> NilDiagram,
          dt |-> NilTriangulation, hull |-> r.hull, hullEps |-> r.hullEps]
    ELSE [err |-> FALSE, msg |-> "", d |-> DualDiagram(h, r.t, eps), dt |-> r.t,
          hull |-> r.hull, hullEps |-> r.hullEps]

\* NewDiagram after dt, err := s2delaunay.NewTriangulation(...) returned r
DiagramOf(h, r, eps) ==
    IF r.err
    THEN [err |-> TRUE, msg |-> r.msg, d |-> NilDiagram, dt |-> NilTriangulation,
          hull |-> r.hull, hullEps |-> r.hullEps]
    ELSE [err |-> FALSE, msg |-> "", d |-> DualDiagram(h, r.t, eps), dt |-> r.t,
          hull |-> r.hull, hullEps |-> r.hullEps]

\* NewDiagram(sites, setters...): sites is the address of the caller's slice.
\* The result carries the triangulation it was derived from (dt) for reference.
NewDiagram(h, sites, setters, rot) ==
    LET opts == ApplySetters(setters, 1, defaultEps)
    IN  IF ALen(h[sites]) < 4
        THEN [err |-> TRUE, msg |-> ErrSites, d |-> NilDiagram, dt |-> NilTriangulation,
              hull |-> 0, hullEps |-> 0]
        ELSE IF opts.err
        THEN [err |-> TRUE, msg |-> ErrEps, d |-> NilDiagram, dt |-> NilTriangulation,
              hull |-> 0, hullEps |-> 0]
        ELSE DiagramOf(h, NewTriangulation(h, sites, <<opts.Eps>>, rot), opts.Eps)

\* Diagram.NumCells
NumCells(h, d) == ALen(h[d.Sites])

\* CellPanics letting i = len(d.Sites) through
CellPanicsInclusive(h, d, i) == i < 0 \/ i > ALen(h[d.Sites])

\* Diagram.Cell panics unless 0 <= i < len(d.Sites)
CellPanics(h, d, i) == i < 0 \/ i >= ALen(h[d.Sites])

\* Diagram.Cell(i) on the Diagram d that the pointer ptr refers to: the view
\* Cell{idx: i, d: ptr}, or the panic with its message's index and bound
Cell(h, d, ptr, i) ==
    IF CellPanics(h, d, i)
    THEN [panic |-> "Cell", index |-> i, bound |-> ALen(h[d.Sites])]
    ELSE [panic |-> "", idx |-> i, d |-> ptr]

\* ------------------------------------------------------------------ Cell
\* a Cell is the pair (idx, d); h is the heap d.Sites points into
SiteIndex(idx) == idx
Site(h, d, idx) == h[d.Sites][idx]
NumVertices(d, idx) == d.CellOffsets[idx + 1] - d.CellOffsets[idx]
NumNeighbors(d, idx) == d.CellOffsets[idx + 1] - d.CellOffsets[idx]
VertexIndices(d, idx) == Slice(d.CellVertices, d.CellOffsets[idx], d.CellOffsets[idx + 1])
NeighborIndices(d, idx) == Slice(d.CellNeighbors, d.CellOffsets[idx], d.CellOffsets[idx + 1])

\* VertexPanicsAt letting i = end-start through
VertexPanicsAtInclusive(d, idx, i) ==
    i < 0 \/ i > d.CellOffsets[idx + 1] - d.CellOffsets[idx]

\* range check of Cell.Vertex
VertexPanicsAt(d, idx, i) ==
    i < 0 \/ i >= d.CellOffsets[idx + 1] - d.CellOffsets[idx]

\* NeighborPanicsAt letting i = end-start through
NeighborPanicsAtInclusive(d, idx, i) ==
    i < 0 \/ i > d.CellOffsets[idx + 1] - d.CellOffsets[idx]

\* range check of Cell.Neighbor
NeighborPanicsAt(d, idx, i) ==
    i < 0 \/ i >= d.CellOffsets[idx + 1] - d.CellOffsets[idx]

\* Vertex reading the neighbouring site instead of the stored Voronoi vertex
VertexFromSites(h, d, idx, i) == h[d.Sites][d.CellNeighbors[d.CellOffsets[idx] + i]]

Vertex(h, d, idx, i) == d.Vertices[d.CellVertices[d.CellOffsets[idx] + i]]

\* Cell.Vertex(i) as the caller sees it: the point, or the panic with its
\* message's index and bound; an index outside the backing array is Go's own
\* index-out-of-range panic
CellVertex(h, d, idx, i) ==
    IF VertexPanicsAt(d, idx, i)
    THEN [panic |-> "Vertex", index |-> i,
          bound |-> d.CellOffsets[idx + 1] - d.CellOffsets[idx]]
    ELSE IF d.CellOffsets[idx] + i \notin DOMAIN d.CellVertices
    THEN [panic |-> "runtime error: index out of range"]
    ELSE [panic |-> "", value |-> Vertex(h, d, idx, i)]

\* Cell.Neighbor(i) as the caller sees it: the view c.d.Cell(...) returns, or
\* the panic with its message's index and bound
CellNeighbor(h, d, ptr, idx, i) ==
    IF NeighborPanicsAt(d, idx, i)
    THEN [panic |-> "Neighbor", index |-> i,
          bound |-> d.CellOffsets[idx + 1] - d.CellOffsets[idx]]
    ELSE IF d.CellOffsets[idx] + i \notin DOMAIN d.CellNeighbors
    THEN [panic |-> "runtime error: index out of range"]
    ELSE Cell(h, d, ptr, d.CellNeighbors[d.CellOffsets[idx] + i])

\* sum loop of Cell.centroid
RECURSIVE SumVertices(_, _, _, _, _)
SumVertices(h, d, idx, i, sum) ==
    IF i >= NumVertices(d, idx) THEN sum
    ELSE SumVertices(h, d, idx, i + 1, Add(sum, Vertex(h, d, idx, i)))

\* a centroid that never refuses a cell
centroidPanicsNever(d, idx) == FALSE

\* if num == 0 { panic("centroid: cell has no vertices") }
centroidPanics(d, idx) == NumVertices(d, idx) = 0

\* Cell.centroid: avg = sum * (1/num) has the direction of sum, and
\* Normalize depends on the direction only
centroid(h, d, idx) == Normalize(SumVertices(h, d, idx, 0, Zero))

\* c.centroid() as its caller sees it: the point, or the panic
CellCentroid(h, d, idx) ==
    IF centroidPanics(d, idx)
    THEN [panic |-> "centroid: cell has no vertices"]
    ELSE [panic |-> "", value |-> centroid(h, d, idx)]

\* ------------------------------------------------------------ the program
VARIABLES
    heap,     \* backing arrays of the caller's slices, by address
    input0,   \* what the caller put into its slice before the first call
    rot,      \* the hull provider's face rotation (fixed for a run)
    diag,     \* the caller's *Diagram handles
    dtOf,     \* the Triangulation each handle's Diagram was derived from
    builtFrom,\* the site values each handle's Diagram was derived from
    relaxed,  \* the handles Relax has started a pass on
    relax,    \* the Relax call in progress, or idle
    ret,      \* what the last finished call returned
    calls     \* number of calls started

vars == <<heap, input0, rot, diag, dtOf, builtFrom, relaxed, relax, ret, calls>>

Handles == {1, 2}
\* address of the caller's slice
Points == 1
HullRotations == {0, 1}
\* WithEps arguments a caller passes (in units of 1e-12); <<>> is no option
SetterChoices == {<<>>, <<0>>, <<-1>>, <<3>>}
StepChoices == -1..MaxSteps
Idle == [active |-> FALSE]
NoRet == [op |-> "none"]

\* the caller's slice: n consecutive pool points starting at the s-th
PoolSlice(s, n) == [i \in 0..(n - 1) |-> SitePool[((s - 1 + i) % Len(SitePool)) + 1]]

Init ==
    /\ \E s \in 1..Len(SitePool), n \in 0..MaxSites :
          /\ heap = <<PoolSlice(s, n)>>
          /\ input0 = PoolSlice(s, n)
    /\ rot \in HullRotations
    /\ diag = [k \in Handles |-> NilDiagram]
    /\ dtOf = [k \in Handles |-> NilTriangulation]
    /\ builtFrom = [k \in Handles |-> EmptyArr]
    /\ relaxed = {}
    /\ relax = Idle
    /\ ret = NoRet
    /\ calls = 0

CanCall == ~relax.active /\ calls < MaxCalls

\* t, err := s2delaunay.NewTriangulation(points, setters...)
CallNewTriangulation(setters) ==
    /\ CanCall
    /\ \E r \in {NewTriangulation(heap, Points, setters, rot)} :
           ret' = [op |-> "NewTriangulation", err |-> r.err, msg |-> r.msg,
                   nil |-> r.t.nil, hull |-> r.hull, hullEps |-> r.hullEps,
                   n |-> ALen(heap[Points]), setters |-> setters]
    /\ calls' = calls + 1
    /\ UNCHANGED <<heap, input0, rot, diag, dtOf, builtFrom, relaxed, relax>>

\* NewDiagram with a hull provider kept across calls, whose face order
\* drifts with every call made
CallNewDiagramSharedHull(k, setters) ==
    /\ CanCall
    /\ diag[k].nil
    /\ \A j \in Handles : j < k => ~diag[j].nil
    /\ \E r \in {NewDiagram(heap, Points, setters, (rot + calls) % 2)} :
           /\ diag' = [diag EXCEPT ![k] = r.d]
           /\ dtOf' = [dtOf EXCEPT ![k] = r.dt]
           /\ builtFrom' = [builtFrom EXCEPT ![k] = IF r.err THEN EmptyArr ELSE heap[Points]]
           /\ ret' = [op |-> "NewDiagram", err |-> r.err, msg |-> r.msg,
                      nil |-> r.d.nil, d |-> k, hull |-> r.hull, hullEps |-> r.hullEps,
                      n |-> ALen(heap[Points]), setters |-> setters]
    /\ calls' = calls + 1
    /\ UNCHANGED <<heap, input0, rot, relaxed, relax>>

\* diag[k], err = NewDiagram(points, setters...)
CallNewDiagram(k, setters) ==
    /\ CanCall
    /\ diag[k].nil
    /\ \A j \in Handles : j < k => ~diag[j].nil
    /\ \E r \in {NewDiagram(heap, Points, setters, rot)} :
           /\ diag' = [diag EXCEPT ![k] = r.d]
           /\ dtOf' = [dtOf EXCEPT ![k] = r.dt]
           /\ builtFrom' = [builtFrom EXCEPT ![k] = IF r.err THEN EmptyArr ELSE heap[Points]]
           /\ ret' = [op |-> "NewDiagram", err |-> r.err, msg |-> r.msg,
                      nil |-> r.d.nil, d |-> k, hull |-> r.hull, hullEps |-> r.hullEps,
                      n |-> ALen(heap[Points]), setters |-> setters]
    /\ calls' = calls + 1
    /\ UNCHANGED <<heap, input0, rot, relaxed, relax>>

\* a Relax that refuses zero steps as well
RelaxRejectsZero(steps) == steps <= 0

\* a Relax that refuses nothing
RelaxRejectsNever(steps) == FALSE

\* if steps < 0 { return fmt.Errorf("Relax: steps must be non-negative, ...") }
RelaxRejects(steps) == steps < 0

\* a pass loop that stops one pass early
LastPassEarly(left) == left <= 2

\* for range steps: the pass that is running is the last one
LastPass(left) == left = 1

\* a site loop that writes the centroid of the next cell
RelaxedSiteOfNext(h, d, i) == Normalize(centroid(h, d, (i + 1) % NumCells(h, d)))

\* cell.centroid().Normalize() of cell i
RelaxedSite(h, d, i) == Normalize(centroid(h, d, i))

\* a rebuild that passes no option
RebuildSettersNone(d) == <<>>

\* the options of the rebuild: WithEps(d.eps)
RebuildSetters(d) == <<d.eps>>

\* the lengths of a Diagram's arrays and its tolerance
Shape(h, d) ==
    [Sites |-> ALen(h[d.Sites]), Vertices |-> ALen(d.Vertices),
     CellVertices |-> ALen(d.CellVertices), CellNeighbors |-> ALen(d.CellNeighbors),
     CellOffsets |-> ALen(d.CellOffsets), eps |-> d.eps]

\* err = diag[k].Relax(steps): entry, up to the first pass;
\* for range steps runs no pass when steps is not positive
RelaxCall(k, steps) ==
    /\ CanCall
    /\ ~diag[k].nil
    /\ calls' = calls + 1
    /\ IF RelaxRejects(steps) \/ steps <= 0
       THEN /\ ret' = [op |-> "Relax", err |-> RelaxRejects(steps),
                       msg |-> IF RelaxRejects(steps) THEN ErrSteps ELSE "",
                       d |-> k, hull |-> 0, steps |-> steps, passes |-> 0,
                       writes |-> 0, epsUsed |-> {}, before |-> Shape(heap, diag[k])]
            /\ UNCHANGED <<relax, relaxed>>
       ELSE /\ relaxed' = relaxed \cup {k}
            /\ relax' = [active |-> TRUE, d |-> k, steps |-> steps, left |-> steps,
                         i |-> 0, n |-> NumCells(heap, diag[k]),
                         start |-> diag[k], startHeap |-> heap, hull |-> 0,
                         writes |-> 0, epsUsed |-> {}, before |-> Shape(heap, diag[k])]
            /\ UNCHANGED ret
    /\ UNCHANGED <<heap, input0, rot, diag, dtOf, builtFrom>>

\* one iteration of the site loop:
\* d.Sites[i] = cell.centroid().Normalize()
RelaxSite ==
    /\ relax.active
    /\ relax.i < relax.n
    /\ LET d == diag[relax.d]
       IN  IF CellPanics(heap, d, relax.i) \/ centroidPanics(d, relax.i)
           THEN /\ ret' = [op |-> "Relax", err |-> TRUE, msg |-> "panic", d |-> relax.d,
                           hull |-> relax.hull, steps |-> relax.steps,
                           passes |-> relax.steps - relax.left,
                           writes |-> relax.writes, epsUsed |-> relax.epsUsed,
                           before |-> relax.before]
                /\ relax' = Idle
                /\ UNCHANGED heap
           ELSE /\ heap' = [heap EXCEPT ![d.Sites][relax.i] = RelaxedSite(heap, d, relax.i)]
                /\ relax' = [relax EXCEPT !.i = relax.i + 1, !.writes = relax.writes + 1]
                /\ UNCHANGED ret
    /\ UNCHANGED <<input0, rot, diag, dtOf, builtFrom, relaxed, calls>>

\* end of a pass: nd, err := NewDiagram(d.Sites, WithEps(d.eps)); *d = *nd
RelaxRebuild ==
    /\ relax.active
    /\ relax.i >= relax.n
    /\ \E d \in {diag[relax.d]} :
       \E r \in {NewDiagram(heap, d.Sites, RebuildSetters(d), rot)} :
       \E used \in {IF r.hull > 0 THEN relax.epsUsed \cup {r.hullEps} ELSE relax.epsUsed} :
       \E done \in {[op |-> "Relax", err |-> r.err, msg |-> r.msg, d |-> relax.d,
                     hull |-> relax.hull + r.hull, steps |-> relax.steps,
                     passes |-> relax.steps - relax.left + 1,
                     writes |-> relax.writes, epsUsed |-> used,
                     before |-> relax.before]} :
           IF r.err
           THEN /\ ret' = done
                /\ relax' = Idle
                /\ UNCHANGED <<diag, dtOf, builtFrom>>
           ELSE /\ diag' = [diag EXCEPT ![relax.d] = r.d]
                /\ dtOf' = [dtOf EXCEPT ![relax.d] = r.dt]
                /\ builtFrom' = [builtFrom EXCEPT ![relax.d] = heap[d.Sites]]
                /\ IF LastPass(relax.left)
                   THEN ret' = done /\ relax' = Idle
                   ELSE /\ relax' = [relax EXCEPT !.left = relax.left - 1, !.i = 0,
                                                  !.n = NumCells(heap, r.d),
                                                  !.start = r.d, !.startHeap = heap,
                                                  !.hull = relax.hull + r.hull,
                                                  !.epsUsed = used]
                        /\ UNCHANGED ret
    /\ UNCHANGED <<heap, input0, rot, relaxed, calls>>

Next ==
    \/ \E setters \in SetterChoices : CallNewTriangulation(setters)
    \/ \E k \in Handles, setters \in SetterChoices : CallNewDiagram(k, setters)
    \/ \E k \in Handles, steps \in StepChoices : RelaxCall(k, steps)
    \/ RelaxSite
    \/ RelaxRebuild

Spec == Init /\ [][Next]_vars

\* a step of the Relax call in progress: its loop position moves on, or the
\* call returns
RelaxStep == relax.active /\ (relax' = Idle \/ relax'.active)

\* Relax is straight-line code in one goroutine: while the call is in progress
\* its next statement (a site write or the rebuild) is executed
LiveSpec == Spec /\ WF_relax(RelaxStep)

\* ------------------------------------------------- the read-only accessors
\* indices a caller passes to Cell, Vertex and Neighbor
IndexChoices == -1..MaxSites

\* reads follow a constructor call that has returned; they change nothing, so
\* a read after a read sees what the first read saw
CanRead == ~relax.active /\ ret.op = "NewDiagram"

\* c := diag[k].Cell(i)
CallCell(k, i) ==
    /\ CanRead
    /\ ~diag[k].nil
    /\ ret' = [op |-> "Cell", d |-> k, i |-> i, out |-> Cell(heap, diag[k], k, i)]
    /\ UNCHANGED <<heap, input0, rot, diag, dtOf, builtFrom, relaxed, relax, calls>>

\* p := diag[k].Cell(idx).Vertex(i)
CallVertex(k, idx, i) ==
    /\ CanRead
    /\ ~diag[k].nil
    /\ idx \in DOMAIN heap[diag[k].Sites]
    /\ ret' = [op |-> "Vertex", d |-> k, idx |-> idx, i |-> i,
               out |-> CellVertex(heap, diag[k], idx, i)]
    /\ UNCHANGED <<heap, input0, rot, diag, dtOf, builtFrom, relaxed, relax, calls>>

\* nc := diag[k].Cell(idx).Neighbor(i)
CallNeighbor(k, idx, i) ==
    /\ CanRead
    /\ ~diag[k].nil
    /\ idx \in DOMAIN heap[diag[k].Sites]
    /\ ret' = [op |-> "Neighbor", d |-> k, idx |-> idx, i |-> i,
               out |-> CellNeighbor(heap, diag[k], k, idx, i)]
    /\ UNCHANGED <<heap, input0, rot, diag, dtOf, builtFrom, relaxed, relax, calls>>

\* a caller that builds Diagrams over its slice and reads them
AccessNext ==
    \/ \E k \in Handles, setters \in SetterChoices : CallNewDiagram(k, setters)
    \/ \E k \in Handles, i \in IndexChoices : CallCell(k, i)
    \/ \E k \in Handles, idx \in IndexChoices, i \in IndexChoices : CallVertex(k, idx, i)
    \/ \E k \in Handles, idx \in IndexChoices, i \in IndexChoices : CallNeighbor(k, idx, i)

AccessSpec == Init /\ [][AccessNext]_vars

\* ------------------------------------------- the hull of at most four points
\* quickhull.ConvexHull on at most 4 points answers with the tetrahedron over
\* the points as they are, without a degeneracy check: the four index triples,
\* each turned so that the fourth point is not in front of it
TetraFace(P, i, j, k, m) ==
    IF Dot(Cross(Sub(P[j], P[i]), Sub(P[k], P[i])), Sub(P[m], P[i])) <= 0
    THEN Tri(i, j, k)
    ELSE Tri(i, k, j)

Tetrahedron(P, r) ==
    LET faces == <<Rotate(TetraFace(P, 0, 1, 2, 3), r % 3),
                   Rotate(TetraFace(P, 0, 1, 3, 2), (1 + r) % 3),
                   Rotate(TetraFace(P, 0, 2, 3, 1), (2 + r) % 3),
                   Rotate(TetraFace(P, 1, 2, 3, 0), r % 3)>>
    IN  [p \in 0..11 |-> faces[(p \div 3) + 1][p % 3]]

\* the sites a caller may repeat
TetraPool == {SitePool[i] : i \in 1..4}

\* a caller's slice of four sites, repeated sites included
TetraInit ==
    /\ \E P \in [0..3 -> TetraPool] :
          /\ heap = <<P>>
          /\ input0 = P
    /\ rot \in HullRotations
    /\ diag = [k \in Handles |-> NilDiagram]
    /\ dtOf = [k \in Handles |-> NilTriangulation]
    /\ builtFrom = [k \in Handles |-> EmptyArr]
    /\ relaxed = {}
    /\ relax = Idle
    /\ ret = NoRet
    /\ calls = 0

\* diag[k], err = NewDiagram(points) on the four sites: NewTriangulation gets
\* the tetrahedron from the hull provider
CallNewDiagramTetra(k) ==
    /\ CanCall
    /\ diag[k].nil
    /\ \A j \in Handles : j < k => ~diag[j].nil
    /\ \E r \in {DiagramOf(heap,
                     TriangulateHull(Points, heap[Points], ALen(heap[Points]),
                                     Tetrahedron(heap[Points], rot), defaultEps),
                     defaultEps)} :
           /\ diag' = [diag EXCEPT ![k] = r.d]
           /\ dtOf' = [dtOf EXCEPT ![k] = r.dt]
           /\ builtFrom' = [builtFrom EXCEPT ![k] = IF r.err THEN EmptyArr ELSE heap[Points]]
           /\ ret' = [op |-> "NewDiagram", err |-> r.err, msg |-> r.msg,
                      nil |-> r.d.nil, d |-> k, hull |-> r.hull, hullEps |-> r.hullEps,
                      n |-> ALen(heap[Points]), setters |-> <<>>]
    /\ calls' = calls + 1
    /\ UNCHANGED <<heap, input0, rot, relaxed, relax>>

TetraNext == \E k \in Handles : CallNewDiagramTetra(k)

TetraSpec == TetraInit /\ [][TetraNext]_vars

\* ------------------------------------------------ centroid of a given cell
\* Diagrams put together field by field, as the package's tests do: two
\* cells over up to MaxVerts Voronoi vertices
VertexPool == <<SitePool[1], Mul(SitePool[1], -1), SitePool[3]>>

\* the Vertices array: the pool repeated from its r-th point on
PoolVertices(r) == [i \in 0..(MaxVerts - 1) |-> VertexPool[((i + r) % Len(VertexPool)) + 1]]

LiteralDiagram(V, CV, o1, o2) ==
    [nil |-> FALSE,
     Sites |-> Points,
     Vertices |-> V,
     CellVertices |-> CV,
     CellNeighbors |-> [p \in DOMAIN CV |-> 0],
     CellOffsets |-> [x \in 0..2 |-> IF x = 0 THEN 0 ELSE IF x = 1 THEN o1 ELSE o2],
     eps |-> defaultEps]

CentroidInit ==
    /\ heap = <<PoolSlice(1, 2)>>
    /\ input0 = PoolSlice(1, 2)
    /\ rot = 0
    /\ \E o2 \in 0..MaxVerts : \E o1 \in 0..o2 :
       \E V \in {PoolVertices(r) : r \in 0..(Len(VertexPool) - 1)} :
       \E CV \in [0..(o2 - 1) -> 0..(MaxVerts - 1)] :
          diag = [k \in Handles |-> IF k = 1 THEN LiteralDiagram(V, CV, o1, o2)
                                    ELSE NilDiagram]
    /\ dtOf = [k \in Handles |-> NilTriangulation]
    /\ builtFrom = [k \in Handles |-> EmptyArr]
    /\ relaxed = {}
    /\ relax = Idle
    /\ ret = NoRet
    /\ calls = 0

\* p := Cell{idx: idx, d: diag[k]}.centroid()
CallCentroid(k, idx) ==
    /\ ret.op = "none"
    /\ ~diag[k].nil
    /\ idx \in DOMAIN heap[diag[k].Sites]
    /\ ret' = [op |-> "centroid", d |-> k, idx |-> idx,
               out |-> CellCentroid(heap, diag[k], idx)]
    /\ UNCHANGED <<heap, input0, rot, diag, dtOf, builtFrom, relaxed, relax, calls>>

CentroidNext == \E k \in Handles, idx \in 0..1 : CallCentroid(k, idx)

CentroidSpec == CentroidInit /\ [][CentroidNext]_vars

\* ------------------------------------------- the helpers called directly
\* a caller with no slice, no Diagram and no call made yet
PureInit ==
    /\ heap = <<EmptyArr>>
    /\ input0 = EmptyArr
    /\ rot = 0
    /\ diag = [k \in Handles |-> NilDiagram]
    /\ dtOf = [k \in Handles |-> NilTriangulation]
    /\ builtFrom = [k \in Handles |-> EmptyArr]
    /\ relaxed = {}
    /\ relax = Idle
    /\ ret = NoRet
    /\ calls = 0

\* the triangles handed in: any three indices; vIdx may lie outside them
TriangleChoices == {Tri(a, b, c) : a, b, c \in 0..MaxIndex}
VertexChoices == -1..(MaxIndex + 1)

\* out := PrevVertex(t, vIdx)
CallPrevVertex(t, vIdx) ==
    /\ ret.op = "none"
    /\ ret' = [op |-> "PrevVertex", t |-> t, vIdx |-> vIdx, out |-> PrevVertexCall(t, vIdx)]
    /\ UNCHANGED <<heap, input0, rot, diag, dtOf, builtFrom, relaxed, relax, calls>>

\* out := NextVertex(t, vIdx)
CallNextVertex(t, vIdx) ==
    /\ ret.op = "none"
    /\ ret' = [op |-> "NextVertex", t |-> t, vIdx |-> vIdx, out |-> NextVertexCall(t, vIdx)]
    /\ UNCHANGED <<heap, input0, rot, diag, dtOf, builtFrom, relaxed, relax, calls>>

VertexNext ==
    \/ \E t \in TriangleChoices, vIdx \in VertexChoices : CallPrevVertex(t, vIdx)
    \/ \E t \in TriangleChoices, vIdx \in VertexChoices : CallNextVertex(t, vIdx)

VertexSpec == PureInit /\ [][VertexNext]_vars

\* ------------------------------------- sortIncidentTriangleIndicesCCW alone
\* the four faces of a tetrahedron over the sites 0..3, counter-clockwise; the
\* faces of the set flip have their second and third index exchanged, so that
\* a list over them need not have a cyclic order
FanTriangles(flip) ==
    LET base == <<Tri(0, 1, 2), Tri(0, 3, 1), Tri(0, 2, 3), Tri(1, 3, 2)>>
    IN  [i \in 0..3 |-> IF i \in flip
                        THEN Tri(base[i + 1][0], base[i + 1][2], base[i + 1][1])
                        ELSE base[i + 1]]

\* the lists handed in for site v: any three triangles that have v as a
\* vertex, in any order, repetitions included
FanLists(v) ==
    LET inc == {i \in 0..3 : ~VertexPanics(FanTriangles({})[i], v)}
    IN  [0..2 -> inc]

\* a triangulation whose incident lists are still unordered: the lists of the
\* sites 0 and 1 are arbitrary, site 4 has no triangle
SortInit ==
    /\ heap = <<EmptyArr>>
    /\ input0 = EmptyArr
    /\ rot = 0
    /\ diag = [k \in Handles |-> NilDiagram]
    /\ \E flip \in SUBSET (0..3), l0 \in FanLists(0), l1 \in FanLists(1) :
           dtOf = [k \in Handles |->
                      IF k = 1
                      THEN [nil |-> FALSE,
                            Vertices |-> Points,
                            Triangles |-> FanTriangles(flip),
                            IncidentTriangleIndices |->
                                [p \in 0..11 |->
                                    IF p < 3 THEN l0[p]
                                    ELSE IF p < 6 THEN l1[p - 3]
                                    ELSE IF p < 9 THEN <<0, 2, 3>>[p - 5]
                                    ELSE <<1, 2, 3>>[p - 8]],
                            IncidentTriangleOffsets |->
                                [v \in 0..5 |-> IF v < 4 THEN 3 * v ELSE 12]]
                      ELSE NilTriangulation]
    /\ builtFrom = [k \in Handles |-> EmptyArr]
    /\ relaxed = {}
    /\ relax = Idle
    /\ ret = NoRet
    /\ calls = 0

\* sortIncidentTriangleIndicesCCW(vIdx, t.IncidentTriangles(vIdx), t.Triangles)
\* on the triangulation t = dtOf[1]: the list is a sub-slice of
\* t.IncidentTriangleIndices and is ordered in place
CallSortIncident(vIdx) ==
    /\ calls < MaxCalls
    /\ \E t \in {dtOf[1]} :
           /\ dtOf' = [dtOf EXCEPT ![1].IncidentTriangleIndices =
                          WriteSlice(t.IncidentTriangleIndices,
                              t.IncidentTriangleOffsets[vIdx],
                              sortIncidentTriangleIndicesCCW(vIdx,
                                  IncidentTriangles(t, vIdx), t.Triangles))]
           /\ ret' = [op |-> "sortIncidentTriangleIndicesCCW", vIdx |-> vIdx, before |-> t]
    /\ calls' = calls + 1
    /\ UNCHANGED <<heap, input0, rot, diag, builtFrom, relaxed, relax>>

SortNext == \E vIdx \in 0..4 : CallSortIncident(vIdx)

SortSpec == SortInit /\ [][SortNext]_vars

\* ---------------------------------------------------------- vocabulary
Built(k) == ~diag[k].nil
Sites(k) == heap[diag[k].Sites]
CellIds(k) == 0..(NumCells(heap, diag[k]) - 1)

\* handle k holds the result of the call that has just returned
Fresh(k) ==
    /\ ~relax.active
    /\ Built(k)
    /\ \/ ret.op = "NewDiagram" /\ ~ret.err /\ ret.d = k
       \/ ret.op = "Relax" /\ ~ret.err /\ ret.d = k /\ ret.passes > 0

\* the faces the hull provider returned for the build of handle k
HullTriangles(k) ==
    LET ch == ConvexHull(builtFrom[k], rot)
    IN  [i \in 0..((ALen(ch) \div 3) - 1) |-> Tri(ch[3 * i], ch[3 * i + 1], ch[3 * i + 2])]

DirEdges(t) == {<<t[0], t[1]>>, <<t[1], t[2]>>, <<t[2], t[0]>>}

\* a closed, consistently oriented surface: every directed edge of every
\* triangle occurs in exactly one triangle and its reverse in exactly one
ClosedOriented(tris) ==
    \A i \in DOMAIN tris : \A e \in DirEdges(tris[i]) :
        /\ Cardinality({j \in DOMAIN tris : e \in DirEdges(tris[j])}) = 1
        /\ Cardinality({j \in DOMAIN tris : <<e[2], e[1]>> \in DirEdges(tris[j])}) = 1

\* signed volume of the parallelepiped a, b, c: positive when a, b, c appear
\* counter-clockwise seen from outside the sphere
Det(a, b, c) == Dot(a, Cross(b, c))

\* the centre of the sphere lies strictly inside the hull of the sites
OriginInside(k) ==
    \A i \in DOMAIN HullTriangles(k) :
        LET f == HullTriangles(k)[i]
        IN  Det(builtFrom[k][f[0]], builtFrom[k][f[1]], builtFrom[k][f[2]]) > 0

\* the stored incident list of site v is cyclically consistent
FanConsistent(t, v) ==
    LET T == IncidentTriangles(t, v)
        n == ALen(T)
    IN  \A i \in 0..(n - 1) :
            NextVertex(t.Triangles[T[i]], v) = PrevVertex(t.Triangles[T[(i + 1) % n]], v)

\* some position i >= 1 of the stored incident list of v does not continue
\* position i-1: the ordering pass found no triangle to swap into position i
MatchFailed(t, v) ==
    LET T == IncidentTriangles(t, v)
    IN  \E i \in 1..(ALen(T) - 1) :
            NextVertex(t.Triangles[T[i - 1]], v) # PrevVertex(t.Triangles[T[i]], v)

\* number of triangles of t that have site v as a vertex
Degree(t, v) == Cardinality({i \in DOMAIN t.Triangles : ~VertexPanics(t.Triangles[i], v)})

RECURSIVE SumTo(_, _)
SumTo(f, n) == IF n < 0 THEN 0 ELSE f[n] + SumTo(f, n - 1)

\* ------------------------------------------------------------------ claims

\* C1 (as claimed; the code violates it): after a successful construction
\* whose hull faces form a closed, consistently oriented surface, every
\* site's stored incident list T_0..T_(k-1) satisfies
\* NextVertex(T_i, v) = PrevVertex(T_((i+1) mod k), v), wrap-around included.
C1_FansCyclic ==
    \A k \in Handles :
        Built(k) /\ ClosedOriented(HullTriangles(k)) =>
            \A v \in DOMAIN builtFrom[k] : FanConsistent(dtOf[k], v)

\* C2 (as claimed; the code violates it): in a successfully built Diagram the
\* boundary vertices and the neighbour sites of every cell are stored
\* counter-clockwise about the cell's site seen from outside the sphere: each
\* cyclically consecutive pair turns counter-clockwise.  Stated for the
\* builds whose sites surround the centre of the sphere.
C2_CellsCCW ==
    \A k \in Handles :
        Fresh(k) /\ OriginInside(k) =>
            \A s \in CellIds(k) :
                LET nb == NeighborIndices(diag[k], s)
                    n == ALen(nb)
                IN  \A p \in 0..(n - 1) :
                        /\ Det(Sites(k)[s], Sites(k)[nb[p]], Sites(k)[nb[(p + 1) % n]]) > 0
                        /\ Det(Sites(k)[s], Vertex(heap, diag[k], s, p),
                               Vertex(heap, diag[k], s, (p + 1) % n)) >= 0

\* C3: a built Diagram over N >= 4 sites has 2N-4 triangles and 2N-4 Voronoi
\* vertices, N cells, and the cells' vertex counts add up to 3*(2N-4), which
\* is CellOffsets[N] and the length of CellVertices.
C3_EulerCounts ==
    \A k \in Handles :
        Built(k) =>
            LET N == ALen(Sites(k))
                d == diag[k]
            IN  /\ N >= 4
                /\ ALen(dtOf[k].Triangles) = 2 * N - 4
                /\ ALen(d.Vertices) = 2 * N - 4
                /\ NumCells(heap, d) = N
                /\ SumTo([i \in 0..(N - 1) |-> NumVertices(d, i)], N - 1) = 3 * (2 * N - 4)
                /\ d.CellOffsets[N] = 3 * (2 * N - 4)
                /\ ALen(d.CellVertices) = 3 * (2 * N - 4)

C3_Witness ==
    \E k \in Handles : Built(k) /\ ALen(Sites(k)) > 4 /\ ALen(diag[k].Vertices) > 4

\* C4: a built Diagram has a well-formed CSR layout: N+1 offsets starting at
\* 0, non-decreasing, ending at the common length of both value arrays, and
\* every cell's vertex count = neighbour count = offset difference = number
\* of triangles incident to its site.
C4_CSRLayout ==
    \A k \in Handles :
        Built(k) =>
            LET N == ALen(Sites(k))
                d == diag[k]
            IN  /\ DOMAIN d.CellOffsets = 0..N
                /\ d.CellOffsets[0] = 0
                /\ \A i \in 0..(N - 1) : d.CellOffsets[i] <= d.CellOffsets[i + 1]
                /\ d.CellOffsets[N] = ALen(d.CellVertices)
                /\ d.CellOffsets[N] = ALen(d.CellNeighbors)
                /\ DOMAIN d.CellVertices = 0..(d.CellOffsets[N] - 1)
                /\ DOMAIN d.CellNeighbors = 0..(d.CellOffsets[N] - 1)
                /\ \A i \in 0..(N - 1) :
                      /\ NumVertices(d, i) = NumNeighbors(d, i)
                      /\ NumVertices(d, i) = d.CellOffsets[i + 1] - d.CellOffsets[i]
                      /\ NumVertices(d, i) = Degree(dtOf[k], i)
                      /\ ALen(VertexIndices(d, i)) = NumVertices(d, i)
                      /\ ALen(NeighborIndices(d, i)) = NumNeighbors(d, i)

C4_Witness ==
    \E k \in Handles : Built(k) /\
        \E i, j \in CellIds(k) : NumVertices(diag[k], i) # NumVertices(diag[k], j)

\* C5: in a built Diagram the neighbour array is index-aligned with the
\* boundary array: the neighbour at local position p of site s is
\* NextVertex(Triangles[CellVertices[CellOffsets[s]+p]], s), a site index in
\* [0, N) other than s.
C5_NeighborAligned ==
    \A k \in Handles :
        Built(k) =>
            LET d == diag[k]
            IN  \A s \in CellIds(k) : \A p \in 0..(NumVertices(d, s) - 1) :
                    LET q == d.CellOffsets[s] + p
                    IN  /\ ~VertexPanics(dtOf[k].Triangles[d.CellVertices[q]], s)
                        /\ d.CellNeighbors[q] =
                               NextVertex(dtOf[k].Triangles[d.CellVertices[q]], s)
                        /\ d.CellNeighbors[q] \in CellIds(k) \ {s}

C5_Witness ==
    \E k \in Handles : Fresh(k) /\ ret.op = "Relax" /\ ALen(Sites(k)) > 4

\* C6: during a Relax pass every site already written holds the centroid of
\* its cell evaluated on the diagram and the sites as they were when the
\* pass started, so the pass does not depend on the order of the writes.
C6_CentroidsFromPassStart ==
    relax.active =>
        \A i \in 0..(relax.i - 1) :
            Sites(relax.d)[i] = Normalize(centroid(relax.startHeap, relax.start, i))

C6_Witness ==
    /\ relax.active
    /\ relax.i >= 2
    /\ \E i \in 0..(relax.i - 2) : Sites(relax.d)[i] # relax.startHeap[diag[relax.d].Sites][i]

\* C7 (as claimed; the code violates it): whenever Relax returns, with or
\* without an error, the Diagram's Sites are the ones its Vertices and CSR
\* arrays were built from.
C7_RelaxAtomic ==
    (~relax.active /\ ret.op = "Relax") => Sites(ret.d) = builtFrom[ret.d]

\* C8 (as claimed; the code violates it): the caller's points slice keeps its
\* contents through NewDiagram and Relax, and a Diagram that was never
\* relaxed keeps the Sites it was built from.
C8_InputUntouched ==
    /\ heap[Points] = input0
    /\ \A k \in Handles : Built(k) /\ k \notin relaxed => Sites(k) = builtFrom[k]

\* C9 (as claimed; the code violates it): when the ordering pass finds no
\* triangle for some position i >= 1 of a site's incident list, construction
\* fails; no construction that returned without an error has such a list.
C9_FailedMatchIsError ==
    \A k \in Handles :
        Built(k) => \A v \in DOMAIN builtFrom[k] : ~MatchFailed(dtOf[k], v)

\* C10: NewTriangulation and NewDiagram on fewer than 4 sites return an error
\* and a nil result without invoking the hull provider.
C10_TooFewSites ==
    (ret.op \in {"NewTriangulation", "NewDiagram"} /\ ret.n < 4) =>
        ret.err /\ ret.nil /\ ret.hull = 0

C10_Witness ==
    ret.op = "NewTriangulation" /\ ret.n = 3 /\ ret.err

\* C11: NewTriangulation and NewDiagram given a WithEps option that is zero or
\* negative return an error and a nil result without invoking the hull
\* provider, whatever the sites; positive options are never rejected, and
\* whenever the hull provider is invoked it receives the last WithEps value, or
\* the default 1e-12 when no option was given.
C11_EpsValidated ==
    ret.op \in {"NewTriangulation", "NewDiagram"} =>
        LET bad == \E i \in DOMAIN ret.setters : ret.setters[i] <= 0
            want == IF ret.setters = <<>> THEN defaultEps
                    ELSE ret.setters[Len(ret.setters)]
        IN  /\ bad => ret.err /\ ret.nil /\ ret.hull = 0
            /\ ~bad => ret.msg # ErrEps
            /\ ret.hull > 0 => ret.hullEps = want

C11_Witness ==
    ret.op = "NewDiagram" /\ ret.setters = <<0>> /\ ret.n >= 4 /\ ret.err

\* C12: when the hull provider returns a number of indices other than
\* 3*(2N-4), NewTriangulation returns its index-count error and nil, and
\* NewDiagram returns that same error and nil; no constructor returns an error
\* together with a non-nil result, and the handle stays nil.
C12_HullMismatchIsError ==
    (~relax.active /\ ret.op \in {"NewTriangulation", "NewDiagram"}) =>
        /\ (ret.hull > 0 /\ ALen(ConvexHull(heap[Points], rot)) # 3 * (2 * ret.n - 4)) =>
               ret.err /\ ret.nil /\ ret.msg = ErrIndices
        /\ ret.err => ret.nil
        /\ ret.err <=> ret.msg # ""
        /\ (ret.op = "NewDiagram" /\ ret.err) => diag[ret.d].nil /\ dtOf[ret.d].nil

C12_Witness ==
    ret.op = "NewDiagram" /\ ret.hull > 0 /\ ret.err

\* C13: Diagram.Cell(i) succeeds exactly when 0 <= i < NumCells(), and then
\* returns a view bound to the same Diagram with SiteIndex() = i; for every
\* other i it fails with a report carrying i and the bound NumCells(); the
\* call changes neither the Diagram nor the sites.
C13_CellRange ==
    /\ [](ret.op = "Cell" =>
            LET n == NumCells(heap, diag[ret.d])
            IN  IF 0 <= ret.i /\ ret.i < n
                THEN /\ ret.out.panic = ""
                     /\ ret.out.d = ret.d
                     /\ SiteIndex(ret.out.idx) = ret.i
                ELSE /\ ret.out.panic = "Cell"
                     /\ ret.out.index = ret.i
                     /\ ret.out.bound = n)
    /\ [][ret'.op = "Cell" => UNCHANGED <<heap, diag, dtOf>>]_vars

C13_Witness ==
    /\ ret.op = "Cell"
    /\ ret.i = NumCells(heap, diag[ret.d])
    /\ ret.out.panic = "Cell"

\* C14: for a Cell with index idx, Vertex(i) succeeds exactly when
\* 0 <= i < NumVertices() and then returns
\* Vertices[CellVertices[CellOffsets[idx]+i]]; for every other i, i =
\* NumVertices() included, it fails with a report carrying i and the bound
\* NumVertices(), so it never returns an entry of the next cell.
C14_VertexRange ==
    ret.op = "Vertex" =>
        LET d == diag[ret.d]
            n == NumVertices(d, ret.idx)
        IN  IF 0 <= ret.i /\ ret.i < n
            THEN /\ ret.out.panic = ""
                 /\ ret.out.value = d.Vertices[d.CellVertices[d.CellOffsets[ret.idx] + ret.i]]
            ELSE /\ ret.out.panic = "Vertex"
                 /\ ret.out.index = ret.i
                 /\ ret.out.bound = n

C14_Witness ==
    /\ ret.op = "Vertex"
    /\ ret.idx + 1 < NumCells(heap, diag[ret.d])
    /\ ret.i = NumVertices(diag[ret.d], ret.idx)
    /\ ret.out.panic = "Vertex"

\* C15: for a Cell with index idx, Neighbor(i) succeeds exactly when
\* 0 <= i < NumNeighbors() and then returns a view on the same Diagram whose
\* SiteIndex() is NeighborIndices()[i]; for every other i, i = NumNeighbors()
\* included, it fails with a report carrying i and the bound NumNeighbors().
C15_NeighborRange ==
    ret.op = "Neighbor" =>
        LET d == diag[ret.d]
            n == NumNeighbors(d, ret.idx)
        IN  IF 0 <= ret.i /\ ret.i < n
            THEN /\ ret.out.panic = ""
                 /\ ret.out.d = ret.d
                 /\ SiteIndex(ret.out.idx) = NeighborIndices(d, ret.idx)[ret.i]
            ELSE /\ ret.out.panic = "Neighbor"
                 /\ ret.out.index = ret.i
                 /\ ret.out.bound = n

C15_Witness ==
    /\ ret.op = "Neighbor"
    /\ ret.i = NumNeighbors(diag[ret.d], ret.idx) - 1
    /\ ret.out.panic = ""
    /\ ret.out.idx # ret.idx

\* C16: Relax(0) returns nil and leaves the sites, the four dual arrays and
\* the stored tolerance of every Diagram as they were, and the hull provider
\* is not invoked
C16_RelaxZero ==
    [][(calls' # calls /\ ~relax'.active /\ ret'.op = "Relax" /\ ret'.steps = 0)
          => /\ ~ret'.err
             /\ ret'.hull = 0
             /\ ret'.passes = 0
             /\ UNCHANGED <<heap, diag>>]_vars

\* a Relax(0) call has returned on a built Diagram
C16_Witness ==
    /\ ret.op = "Relax"
    /\ ret.steps = 0
    /\ ~ret.err
    /\ ~diag[ret.d].nil
    /\ ALen(heap[diag[ret.d].Sites]) >= 4

\* C17: Relax(steps) with steps < 0 returns an error; no site is written,
\* no array of the Diagram changes and the hull provider is not invoked
C17_RelaxNegative ==
    [][(calls' # calls /\ ~relax'.active /\ ret'.op = "Relax" /\ ret'.steps < 0)
          => /\ ret'.err
             /\ ret'.hull = 0
             /\ ret'.passes = 0
             /\ UNCHANGED <<heap, diag, relaxed>>]_vars

\* a Relax(-1) call has returned its error on a built Diagram
C17_Witness ==
    /\ ret.op = "Relax"
    /\ ret.steps < 0
    /\ ret.err
    /\ ~diag[ret.d].nil
    /\ ALen(heap[diag[ret.d].Sites]) >= 4

\* statements of the two loops of Relax still to run
Remaining(r) == IF r.active THEN r.left * (r.n + 1) - r.i ELSE 0

\* C18: Relax(k) with k >= 0 terminates; when every rebuild succeeds it has
\* run exactly k passes, each one writing every site once and rebuilding once,
\* and returns nil; when a rebuild fails it stops at that pass and returns the
\* error of that rebuild
C18_RelaxTerminates ==
    /\ relax.active ~> ~relax.active
    /\ [](relax.active => relax.left \in 1..relax.steps /\ relax.i \in 0..relax.n)
    /\ [][relax.active => Remaining(relax') < Remaining(relax)]_vars
    /\ []((ret.op = "Relax" /\ ret.steps >= 0) =>
            /\ ret.msg # "panic"
            /\ ret.writes = ret.passes * ret.before.Sites
            /\ ret.hull = ret.passes
            /\ IF ret.err
               THEN /\ ret.passes \in 1..ret.steps
                    /\ ret.msg \in {ErrVertices, ErrIndices}
               ELSE /\ ret.passes = ret.steps
                    /\ ret.msg = "")
    /\ [][(relax.active /\ relax.i >= relax.n /\ ~relax'.active /\ ret'.err)
            => /\ UNCHANGED <<heap, diag>>
               /\ ret'.msg = NewDiagram(heap, diag[relax.d].Sites,
                                        <<diag[relax.d].eps>>, rot).msg]_vars

\* a Relax of two passes has returned nil, and one has stopped at a failed
\* rebuild: both are reached, the first one here
C18_Witness ==
    /\ ret.op = "Relax"
    /\ ret.steps = 2
    /\ ~ret.err
    /\ ret.passes = 2
    /\ ret.hull = 2

\* C19: after a successful Relax(k), k >= 0, the Diagram has the N sites it
\* had, 2N-4 vertices, and CellVertices, CellNeighbors and CellOffsets of the
\* lengths they had; after each pass site i is the normalized centroid of
\* cell i of the diagram the pass started from
C19_RelaxKeepsShape ==
    /\ []((~relax.active /\ ret.op = "Relax" /\ ~ret.err /\ ret.steps >= 0) =>
            \E now \in {Shape(heap, diag[ret.d])} :
                /\ now.Sites = ret.before.Sites
                /\ now.Vertices = 2 * now.Sites - 4
                /\ now.Vertices = ret.before.Vertices
                /\ now.CellVertices = ret.before.CellVertices
                /\ now.CellNeighbors = ret.before.CellNeighbors
                /\ now.CellOffsets = ret.before.CellOffsets
                /\ now.CellOffsets = now.Sites + 1)
    /\ [][(relax.active /\ relax.i >= relax.n /\ (relax'.active \/ ~ret'.err)) =>
            /\ diag'[relax.d].Sites = diag[relax.d].Sites
            /\ \A i \in 0..(relax.n - 1) :
                  heap'[diag'[relax.d].Sites][i] =
                      Normalize(centroid(relax.startHeap, relax.start, i))]_vars

\* a Relax of two passes has succeeded and has moved a site
C19_Witness ==
    /\ ~relax.active
    /\ ret.op = "Relax"
    /\ ~ret.err
    /\ ret.steps = 2
    /\ ret.before.Sites >= 5
    /\ heap[diag[ret.d].Sites] # input0

\* C20: a Diagram stores the tolerance it was built with (the WithEps value,
\* or the default without an option); every rebuild of Relax hands that stored
\* tolerance to the hull provider, and during and after Relax the stored
\* tolerance is the one the Diagram had when Relax was called
C20_StoredEps ==
    /\ (~relax.active /\ ret.op = "NewDiagram" /\ ~ret.err) =>
          /\ diag[ret.d].eps = IF ret.setters = <<>> THEN defaultEps
                               ELSE ret.setters[Len(ret.setters)]
          /\ ret.hullEps = diag[ret.d].eps
    /\ relax.active =>
          /\ diag[relax.d].eps = relax.before.eps
          /\ relax.epsUsed \subseteq {relax.before.eps}
    /\ (ret.op = "Relax" /\ ret.steps >= 0) =>
          /\ ret.epsUsed = IF ret.passes > 0 THEN {ret.before.eps} ELSE {}
          /\ ~relax.active => diag[ret.d].eps = ret.before.eps

\* a Diagram built with WithEps(3) has been relaxed twice
C20_Witness ==
    /\ ~relax.active
    /\ ret.op = "Relax"
    /\ ~ret.err
    /\ ret.steps = 2
    /\ ret.before.eps = 3
    /\ ret.epsUsed = {3}
    /\ diag[ret.d].eps # defaultEps

\* cross(V[t1]-V[t0], V[t2]-V[t0]) . V[t0] of the index triple t over V
SignedVolume(t, V) == Dot(Cross(Sub(V[t[1]], V[t[0]]), Sub(V[t[2]], V[t[0]])), V[t[0]])

\* C21: after construction every triangle has signed volume >= 0; triangle i
\* is hull face i with its second and third index swapped exactly when the
\* face's signed volume is negative, and the face itself otherwise
C21_TrianglesCCW ==
    \A k \in Handles :
        Built(k) =>
            \E V \in {builtFrom[k]} : \E faces \in {HullTriangles(k)} :
                /\ DOMAIN dtOf[k].Triangles = DOMAIN faces
                /\ \A i \in DOMAIN faces :
                      \E t \in {dtOf[k].Triangles[i]} : \E f \in {faces[i]} :
                          /\ SignedVolume(t, V) >= 0
                          /\ t[0] = f[0]
                          /\ {t[0], t[1], t[2]} = {f[0], f[1], f[2]}
                          /\ IF SignedVolume(f, V) < 0
                             THEN t[1] = f[2] /\ t[2] = f[1]
                             ELSE t = f

\* a built triangulation with a face that was swapped and one that was not
C21_Witness ==
    \E k \in Handles :
        /\ Built(k)
        /\ \E i, j \in DOMAIN dtOf[k].Triangles :
              /\ SignedVolume(HullTriangles(k)[i], builtFrom[k]) < 0
              /\ dtOf[k].Triangles[i] # HullTriangles(k)[i]
              /\ SignedVolume(HullTriangles(k)[j], builtFrom[k]) > 0
              /\ dtOf[k].Triangles[j] = HullTriangles(k)[j]

\* C22 (as claimed; the code violates it): a triangle whose three sites make
\* cross(v0-v1, v1-v2) the zero vector makes the construction fail, so that
\* every Diagram returned as built has non-degenerate triangles and unit
\* Voronoi vertices only
C22_DegenerateIsError ==
    \A k \in Handles :
        Built(k) =>
            \A i \in DOMAIN dtOf[k].Triangles :
                \E t \in {dtOf[k].Triangles[i]} : \E V \in {builtFrom[k]} :
                    /\ Cross(Sub(V[t[0]], V[t[1]]), Sub(V[t[1]], V[t[2]])) # Zero
                    /\ Dot(diag[k].Vertices[i], diag[k].Vertices[i]) = Norm2

\* the sum of the vectors f[0], ..., f[n]
RECURSIVE VecSumTo(_, _)
VecSumTo(f, n) == IF n < 0 THEN Zero ELSE Add(f[n], VecSumTo(f, n - 1))

\* C23: the centroid of a cell with no boundary vertex panics and returns no
\* point; the centroid of a cell with k >= 1 boundary vertices is the
\* normalized mean of exactly the k vertices
\* Vertices[CellVertices[CellOffsets[i] .. CellOffsets[i+1])]
C23_Centroid ==
    ret.op = "centroid" =>
        \E d \in {diag[ret.d]} :
        \E lo \in {d.CellOffsets[ret.idx]} : \E hi \in {d.CellOffsets[ret.idx + 1]} :
            IF hi = lo
            THEN ret.out = [panic |-> "centroid: cell has no vertices"]
            ELSE /\ ret.out.panic = ""
                 /\ ret.out.value =
                       Normalize(VecSumTo([p \in 0..(hi - lo - 1) |->
                                              d.Vertices[d.CellVertices[lo + p]]],
                                          hi - lo - 1))

\* both cases have been exercised: an empty cell has panicked, and a second
\* cell of two vertices that do not cancel has a centroid
C23_Witness ==
    /\ ret.op = "centroid"
    /\ ret.idx = 1
    /\ diag[ret.d].CellOffsets[1] = 1
    /\ diag[ret.d].CellOffsets[2] = 3
    /\ ret.out.panic = ""
    /\ ret.out.value # Zero
    /\ diag[ret.d].CellOffsets[0] = 0

\* the four points P span a tetrahedron of non-zero volume
NonDegenerate4(P) ==
    Dot(Sub(P[1], P[0]), Cross(Sub(P[2], P[0]), Sub(P[3], P[0]))) # 0

\* C24: on 4 sites forming a non-degenerate tetrahedron the construction
\* succeeds, with exactly 4 triangles and 4 Voronoi vertices, and every cell
\* has exactly 3 vertices and exactly 3 neighbours
C24_Tetrahedron ==
    /\ (/\ ~relax.active
        /\ ret.op = "NewDiagram"
        /\ ret.n = 4
        /\ (ret.setters = <<>> \/ ret.setters[1] > 0)
        /\ NonDegenerate4(heap[Points])) =>
            /\ ~ret.err
            /\ Built(ret.d)
            /\ builtFrom[ret.d] = heap[Points]
    /\ \A k \in Handles :
          (Built(k) /\ ALen(builtFrom[k]) = 4 /\ NonDegenerate4(builtFrom[k])) =>
              \E d \in {diag[k]} :
                  /\ ALen(dtOf[k].Triangles) = 4
                  /\ ALen(d.Vertices) = 4
                  /\ \A s \in 0..3 :
                        /\ NumVertices(d, s) = 3
                        /\ NumNeighbors(d, s) = 3
                        /\ ALen(VertexIndices(d, s)) = 3
                        /\ ALen(NeighborIndices(d, s)) = 3

\* NewDiagram has just built a Diagram over a non-degenerate tetrahedron
C24_Witness ==
    /\ ~relax.active
    /\ ret.op = "NewDiagram"
    /\ ~ret.err
    /\ ret.n = 4
    /\ NonDegenerate4(heap[Points])
    /\ ALen(diag[ret.d].Vertices) = 4

\* the three indices of t are distinct
Distinct3(t) == t[0] # t[1] /\ t[1] # t[2] /\ t[0] # t[2]

\* C25: for a triangle t of three distinct indices and v = t[pos],
\* NextVertex(t, v) = t[(pos+1) mod 3] and PrevVertex(t, v) = t[(pos+2) mod 3],
\* so each undoes the other; for v not in t (distinct or not) both panic and
\* return no index
C25_PrevNext ==
    ret.op \in {"PrevVertex", "NextVertex"} =>
        \E t \in {ret.t} : \E v \in {ret.vIdx} :
            IF \A pos \in 0..2 : t[pos] # v
            THEN /\ ret.out.panic # ""
                 /\ DOMAIN ret.out = {"panic"}
            ELSE /\ ret.out.panic = ""
                 /\ Distinct3(t) =>
                       \E pos \in 0..2 :
                           /\ t[pos] = v
                           /\ ret.op = "NextVertex" =>
                                 /\ ret.out.value = t[(pos + 1) % 3]
                                 /\ PrevVertexCall(t, ret.out.value) =
                                        [panic |-> "", value |-> v]
                           /\ ret.op = "PrevVertex" =>
                                 /\ ret.out.value = t[(pos + 2) % 3]
                                 /\ NextVertexCall(t, ret.out.value) =
                                        [panic |-> "", value |-> v]

\* PrevVertex has answered for the last index of a triangle of distinct indices
C25_Witness ==
    /\ ret.op = "PrevVertex"
    /\ Distinct3(ret.t)
    /\ ret.vIdx = ret.t[2]
    /\ ret.out.panic = ""
    /\ ret.out.value = ret.t[1]

ScatterOf(k) ==
    Scatter(ConvexHull(builtFrom[k], rot), builtFrom[k], ALen(builtFrom[k]),
            dtOf[k].IncidentTriangleOffsets)

\* the entries of a between positions lo (included) and hi (excluded)
Between(a, lo, hi) == {a[p] : p \in {q \in DOMAIN a : lo <= q /\ q < hi}}

\* C27: after the counting sort of a successful NewTriangulation, for every
\* site v the slice IncidentTriangleIndices[offsets[v] .. offsets[v+1]) holds
\* exactly the indices of the triangles that have v as a vertex, each once
\* (at the end of the scatter loop and in the triangulation that is returned);
\* every slot of the value array was written exactly once, and the write
\* cursor of site v ended at offsets[v+1]
C27_CountingSort ==
    \A k \in Handles : Built(k) =>
        \E st \in {ScatterOf(k)} :
            LET t == dtOf[k]
                offs == t.IncidentTriangleOffsets
            IN  /\ \A v \in 0..(ALen(builtFrom[k]) - 1) :
                       LET inc == {i \in DOMAIN t.Triangles :
                                      ~VertexPanics(t.Triangles[i], v)}
                       IN  /\ offs[v] <= offs[v + 1]
                           /\ Between(st.IncidentTriangleIndices, offs[v], offs[v + 1]) = inc
                           /\ Between(t.IncidentTriangleIndices, offs[v], offs[v + 1]) = inc
                           /\ offs[v + 1] - offs[v] = Cardinality(inc)
                           /\ st.nxt[v] = offs[v + 1]
                /\ offs[0] = 0
                /\ offs[ALen(builtFrom[k])] = ALen(t.IncidentTriangleIndices)
                /\ \A p \in DOMAIN st.writes : st.writes[p] = 1

\* a triangulation of five sites was built: the sites have different degrees
C27_Witness ==
    \E k \in Handles :
        /\ Built(k)
        /\ ALen(builtFrom[k]) >= 5
        /\ \E v, w \in 0..(ALen(builtFrom[k]) - 1) :
               Degree(dtOf[k], v) # Degree(dtOf[k], w)
        /\ \A p \in DOMAIN ScatterOf(k).writes : ScatterOf(k).writes[p] = 1

\* number of positions of the array a that hold x
Count(a, x) == Cardinality({p \in DOMAIN a : a[p] = x})

\* C28: sortIncidentTriangleIndicesCCW only permutes its own list in place:
\* whatever the list (with a cyclic order or without one), it holds the same
\* triangle indices as many times as before, its first element has not moved,
\* and the triangles, the offsets and every position of the index array
\* outside the list are as before
C28_SortPermutes ==
    ret.op = "sortIncidentTriangleIndicesCCW" =>
        \E b \in {ret.before} : \E a \in {dtOf[1]} : \E v \in {ret.vIdx} :
            /\ DOMAIN a.IncidentTriangleIndices = DOMAIN b.IncidentTriangleIndices
            /\ \A x \in DOMAIN b.Triangles :
                   Count(IncidentTriangles(a, v), x) = Count(IncidentTriangles(b, v), x)
            /\ ALen(IncidentTriangles(b, v)) > 0 =>
                   IncidentTriangles(a, v)[0] = IncidentTriangles(b, v)[0]
            /\ a.Triangles = b.Triangles
            /\ a.IncidentTriangleOffsets = b.IncidentTriangleOffsets
            /\ \A p \in DOMAIN b.IncidentTriangleIndices :
                   (p < b.IncidentTriangleOffsets[v] \/ p >= b.IncidentTriangleOffsets[v + 1])
                       => a.IncidentTriangleIndices[p] = b.IncidentTriangleIndices[p]

\* the pass exchanged two entries of a list that has no cyclic order
C28_Witness ==
    /\ ret.op = "sortIncidentTriangleIndicesCCW"
    /\ dtOf[1].IncidentTriangleIndices # ret.before.IncidentTriangleIndices
    /\ MatchFailed(dtOf[1], ret.vIdx)

\* the neighbour at local position p of cell s lies on both the triangle of
\* boundary position p and the triangle of boundary position (p+1) mod n
SharesEdge(k, s, p) ==
    LET d == diag[k]
        off == d.CellOffsets[s]
        n == d.CellOffsets[s + 1] - off
        T1 == dtOf[k].Triangles[d.CellVertices[off + p]]
        T2 == dtOf[k].Triangles[d.CellVertices[off + ((p + 1) % n)]]
        nb == d.CellNeighbors[off + p]
    IN  /\ ~VertexPanics(T1, s) /\ ~VertexPanics(T1, nb)
        /\ ~VertexPanics(T2, s) /\ ~VertexPanics(T2, nb)

\* C29 (as claimed): in a successfully built Diagram whose hull faces form a
\* closed surface, for every cell s with n boundary entries and every local
\* position p the neighbour at position p is the site across the Voronoi edge
\* between the boundary vertices p and (p+1) mod n: both triangles contain s
\* and that neighbour.
C29_NeighborSharesEdge ==
    \A k \in Handles :
        Built(k) /\ ClosedOriented(HullTriangles(k)) =>
            \A s \in CellIds(k) :
                \A p \in 0..(NumVertices(diag[k], s) - 1) : SharesEdge(k, s, p)

\* no entry of the array occurs at two positions
NoDuplicates(a) == \A p, q \in DOMAIN a : a[p] = a[q] => p = q

\* site j is listed among the neighbours of cell i of handle k
Lists(k, i, j) == \E p \in DOMAIN NeighborIndices(diag[k], i) : NeighborIndices(diag[k], i)[p] = j

\* C30 (as claimed): in a successfully built Diagram whose hull faces form a
\* closed surface the neighbour relation is symmetric and irreflexive and has
\* no duplicates: j is listed by cell i exactly when i is listed by cell j, no
\* cell lists itself, and no site occurs twice in one cell's list.
C30_NeighborsSymmetric ==
    \A k \in Handles :
        Built(k) /\ ClosedOriented(HullTriangles(k)) =>
            \A i \in CellIds(k) :
                /\ ~Lists(k, i, i)
                /\ NoDuplicates(NeighborIndices(diag[k], i))
                /\ \A j \in CellIds(k) : Lists(k, i, j) <=> Lists(k, j, i)
====
